---- MODULE Spec2Model ----
(***************************************************************************)
(* Model of metaseq/cli/interactive_cli.py: worker_main run by every rank  *)
(* of the process group (rank 0 generates and writes the output file, the  *)
(* other ranks wait on the broadcast), and make_caninical_smiles, the      *)
(* per-item SELFIES -> canonical SMILES conversion run by the parmap pool. *)
(***************************************************************************)
EXTENDS Integers, Sequences, FiniteSets, TLC

\* ---------------------------------------------------------------- bounds
MaxWorld == 2
MaxBatch == 2
MaxGenLen == 2

\* ------------------------------------------- metaseq/service/constants.py
TEMPERATURE == 1
SAMPLING_TOPP == "0.8"
LOGPROBS == 0
MAX_BEAM == 1
SEED == 3

\* Python's None, and the marker of a call that raised.
None == "<None>"
Raised == "<raised>"
NoExit == 0 - 1
\* what a list-valued call yields when it raised
RaisedSeq == <<Raised>>

\* Raw texts the Generation Service can return, one of each class:
\* two well-formed strings with different canonical forms, one the SELFIES
\* decoder rejects, one that decodes to a SMILES RDKit cannot parse.
Texts == {"[N][C]", "[C][O]", "[C][O", "[C][?]"}

\* Lines of an output file left by an earlier run.
PreContent == <<"old">>

\* Lines a concurrent run with the same output path writes to the file.
OtherContent == <<"other">>

\* ------------------------------------------------------- pure functions

\* selfies.decoder: SELFIES -> SMILES, raises DecoderError on malformed input
sf_decoder(selfies) ==
    CASE selfies = "[N][C]" -> "NC"
      [] selfies = "[C][O]" -> "CO"
      [] selfies = "[C][?]" -> "C?"
      [] OTHER -> Raised

\* rdkit Chem.MolFromSmiles: the molecule (named by its canonical graph), or
\* None when the SMILES does not parse; it does not raise
MolFromSmiles(smiles) ==
    CASE smiles = "NC" -> "mol_CN"
      [] smiles = "CN" -> "mol_CN"
      [] smiles = "CO" -> "mol_CO"
      [] smiles = "OC" -> "mol_CO"
      [] OTHER -> None

\* rdkit Chem.MolToSmiles: canonical SMILES; raises on None
MolToSmiles(mol) ==
    CASE mol = "mol_CN" -> "CN"
      [] mol = "mol_CO" -> "CO"
      [] OTHER -> Raised

\* make_caninical_smiles: the decoder call is outside the try, so its
\* exception propagates; a canonicalization exception leaves None
make_caninical_smiles(selfies) ==
    LET smiles == sf_decoder(selfies) IN
    IF smiles = Raised THEN Raised
    ELSE LET canon_smiles == MolToSmiles(MolFromSmiles(smiles)) IN
         IF canon_smiles = Raised THEN None ELSE canon_smiles

\* parmap.map(make_caninical_smiles, smiles_batch): results in input order,
\* whatever order the pool's processes finished in; an exception of any item
\* is re-raised by the call
parmap_mapByCompletion(smiles_batch, finished) ==
    LET res == [k \in 1..Len(smiles_batch) |->
                   make_caninical_smiles(smiles_batch[finished[k]])] IN
    IF \E i \in 1..Len(res) : res[i] = Raised THEN RaisedSeq ELSE res
parmap_map(smiles_batch, finished) ==
    LET res == [i \in 1..Len(smiles_batch) |->
                   make_caninical_smiles(smiles_batch[i])] IN
    IF \E i \in 1..Len(res) : res[i] = Raised THEN RaisedSeq ELSE res

\* "\n".join(lines) + "\n" as the lines it adds to the file; str.join raises
\* TypeError when an element is None
JoinLinesNoneAsText(lines) ==
    [i \in 1..Len(lines) |-> IF lines[i] = None THEN "None" ELSE lines[i]]
JoinLinesSkipNone(lines) == SelectSeq(lines, LAMBDA x : x # None)
JoinLines(lines) ==
    IF \E i \in 1..Len(lines) : lines[i] = None THEN RaisedSeq ELSE lines

\* math.ceil(generation_len / batch_size)
CeilFloor(generation_len, batch_size) == generation_len \div batch_size
Ceil(generation_len, batch_size) ==
    IF generation_len % batch_size = 0
    THEN generation_len \div batch_size
    ELSE generation_len \div batch_size + 1

\* [x] * n
Repeat(x, n) == [i \in 1..n |-> x]

\* ------------------------------------------------------------------ state
VARIABLES
    cfg,          \* the resolved configuration: batch_size, generation_len, mol_repr, seed
    worldSize,    \* number of ranks in the process group
    initialized,  \* torch.distributed.is_initialized()
    fileExists,   \* os.path.exists(file_path)
    disk,         \* the lines of the file at file_path
    published,    \* objects rank 0 has put on the broadcast channel
    received,     \* per rank: broadcast objects taken so far
    pc,           \* per rank: position in worker_main
    loaded,       \* per rank: generator.load_model() has run
    touched,      \* ranks that have tested, opened or written file_path
    buf,          \* per rank: lines written to csv_file and not yet on disk
    request,      \* per rank: request_object
    round,        \* per rank: loop index i
    calls,        \* per rank: generator.generate calls begun
    smiles_batch, \* per rank: texts of the current round
    finished,     \* per rank: items the pool has finished, in completion order
    gens,         \* per rank: the batches generator.generate has returned
    stageLog,     \* per rank: per round, whether parmap itself failed
    reqLog,       \* per rank: the request passed to each generate call
    exitCode,     \* per rank: process exit status, NoExit while running
    log           \* per rank: what the process has printed or logged

vars == <<cfg, worldSize, initialized, fileExists, disk, published, received,
          pc, loaded, touched, buf, request, round, calls, smiles_batch,
          finished, gens, stageLog, reqLog, exitCode, log>>

Ranks == 0..(worldSize - 1)

NoRequest == [inputs |-> <<>>, max_tokens |-> None, min_tokens |-> <<>>,
              temperature |-> TEMPERATURE, top_p |-> SAMPLING_TOPP,
              logprobs |-> LOGPROBS, n |-> MAX_BEAM, best_of |-> None,
              echo |-> FALSE, stop |-> None, seed |-> NoExit, use_cuda |-> FALSE]

\* the request_object literal
BuildRequest(batch_size, seed) ==
    [inputs |-> Repeat(<<>>, batch_size), max_tokens |-> None,
     min_tokens |-> Repeat(1, batch_size),
     temperature |-> TEMPERATURE, top_p |-> SAMPLING_TOPP,
     logprobs |-> LOGPROBS, n |-> MAX_BEAM, best_of |-> None,
     echo |-> FALSE, stop |-> None, seed |-> seed, use_cuda |-> TRUE]

\* not torch.distributed.is_initialized() or torch.distributed.get_rank() == 0
IsCoordinatorAny(r) == TRUE
IsCoordinator(r) == (~initialized) \/ r = 0

\* os.path.exists(file_path)
PathExistsNever == FALSE
PathExists == fileExists

\* cfg.generation.mol_repr == "smiles"
PassThroughNever == FALSE
PassThrough == cfg.mol_repr = "smiles"

\* the **request_object of the generate call of rank r's current round
RequestSeedByRound(r) == [request[r] EXCEPT !.seed = @ + round[r]]
RequestForRound(r) == request[r]

\* range(math.ceil(cfg.generation.generation_len / batch_size))
NumRounds == Ceil(cfg.generation_len, cfg.batch_size)

\* what a reader of the file would get once the rank's buffer is flushed
Content(r) == disk \o buf[r]

Init ==
    /\ cfg \in [batch_size : 1..MaxBatch, generation_len : 1..MaxGenLen,
                mol_repr : {"smiles", "selfies"}, seed : {SEED}]
    /\ worldSize \in 1..MaxWorld
    /\ initialized \in BOOLEAN
    /\ (worldSize > 1 => initialized)
    /\ fileExists \in BOOLEAN
    /\ disk = IF fileExists THEN PreContent ELSE <<>>
    /\ published = 0
    /\ received = [r \in Ranks |-> 0]
    /\ pc = [r \in Ranks |-> "start"]
    /\ loaded = [r \in Ranks |-> FALSE]
    /\ touched = {}
    /\ buf = [r \in Ranks |-> <<>>]
    /\ request = [r \in Ranks |-> NoRequest]
    /\ round = [r \in Ranks |-> 0]
    /\ calls = [r \in Ranks |-> 0]
    /\ smiles_batch = [r \in Ranks |-> <<>>]
    /\ finished = [r \in Ranks |-> <<>>]
    /\ gens = [r \in Ranks |-> <<>>]
    /\ stageLog = [r \in Ranks |-> <<>>]
    /\ reqLog = [r \in Ranks |-> <<>>]
    /\ exitCode = [r \in Ranks |-> NoExit]
    /\ log = [r \in Ranks |-> <<>>]

\* --------------------------------------------------------------- actions

\* where a rank goes after the start-up broadcast: the role test
RoleBranch(r) == IF IsCoordinator(r) THEN "guard" ELSE "wait"

\* generator = GeneratorInterface(cfg); generator.load_model()
LoadModel(r) ==
    /\ pc[r] = "start"
    /\ loaded' = [loaded EXCEPT ![r] = TRUE]
    /\ pc' = [pc EXCEPT ![r] = IF initialized THEN "bcast" ELSE RoleBranch(r)]
    /\ log' = [log EXCEPT ![r] = Append(@, "loaded model")]
    /\ UNCHANGED <<cfg, worldSize, initialized, fileExists, disk, published,
                   received, touched, buf, request, round, calls,
                   smiles_batch, finished, gens, stageLog, reqLog, exitCode>>

\* rank 0's side of broadcast_object(None, src_rank=0): publishes None
BroadcastSend(r) ==
    /\ pc[r] = "bcast"
    /\ r = 0
    /\ published' = published + 1
    /\ received' = [received EXCEPT ![r] = @ + 1]
    /\ pc' = [pc EXCEPT ![r] = RoleBranch(r)]
    /\ UNCHANGED <<cfg, worldSize, initialized, fileExists, disk, loaded,
                   touched, buf, request, round, calls, smiles_batch,
                   finished, gens, stageLog, reqLog, exitCode, log>>

\* another rank's side of broadcast_object(None, src_rank=0): blocks until
\* rank 0 has published an object the rank has not yet taken.  At start-up
\* the rank goes on to the role test; in the waiting loop the object goes to
\* generator.generate(**request_object), and the only object rank 0 ever
\* publishes is None, for which the ** unpacking raises TypeError.
BroadcastReceive(r) ==
    /\ pc[r] \in {"bcast", "wait"}
    /\ r # 0
    /\ received[r] < published
    /\ received' = [received EXCEPT ![r] = @ + 1]
    /\ IF pc[r] = "bcast"
       THEN /\ pc' = [pc EXCEPT ![r] = RoleBranch(r)]
            /\ UNCHANGED exitCode
       ELSE /\ pc' = [pc EXCEPT ![r] = "error"]
            /\ exitCode' = [exitCode EXCEPT ![r] = 1]
    /\ UNCHANGED <<cfg, worldSize, initialized, fileExists, disk, published,
                   loaded, touched, buf, request, round, calls, smiles_batch,
                   finished, gens, stageLog, reqLog, log>>

\* if os.path.exists(file_path): print(...); sys.exit(1)
GuardExists(r) ==
    /\ pc[r] = "guard"
    /\ touched' = touched \cup {r}
    /\ IF PathExists
       THEN /\ pc' = [pc EXCEPT ![r] = "exited"]
            /\ exitCode' = [exitCode EXCEPT ![r] = 1]
            /\ log' = [log EXCEPT ![r] = Append(@, "file_path already exists")]
       ELSE /\ pc' = [pc EXCEPT ![r] = "open"]
            /\ UNCHANGED <<exitCode, log>>
    /\ UNCHANGED <<cfg, worldSize, initialized, fileExists, disk, published,
                   received, loaded, buf, request, round, calls, smiles_batch,
                   finished, gens, stageLog, reqLog>>

\* csv_file = open(file_path, "wt+") (creates or truncates), then the
\* request_object literal
OpenFile(r) ==
    /\ pc[r] = "open"
    /\ touched' = touched \cup {r}
    /\ fileExists' = TRUE
    /\ disk' = <<>>
    /\ request' = [request EXCEPT ![r] = BuildRequest(cfg.batch_size, cfg.seed)]
    /\ pc' = [pc EXCEPT ![r] = "loop"]
    /\ log' = [log EXCEPT ![r] = Append(@, "request_object")]
    /\ UNCHANGED <<cfg, worldSize, initialized, published, received, loaded,
                   buf, round, calls, smiles_batch, finished, gens, stageLog,
                   reqLog, exitCode>>

\* generations = generator.generate(**request_object);
\* smiles_batch = list(map(lambda x: x[0]["text"], generations))
Generate(r) ==
    /\ pc[r] = "loop"
    /\ round[r] < NumRounds
    /\ \E batch \in [1..Len(RequestForRound(r).inputs) -> Texts] :
          /\ smiles_batch' = [smiles_batch EXCEPT ![r] = batch]
          /\ gens' = [gens EXCEPT ![r] = Append(@, batch)]
    /\ calls' = [calls EXCEPT ![r] = @ + 1]
    /\ reqLog' = [reqLog EXCEPT ![r] = Append(@, RequestForRound(r))]
    /\ finished' = [finished EXCEPT ![r] = <<>>]
    /\ pc' = [pc EXCEPT ![r] = IF PassThrough THEN "write" ELSE "parmap"]
    /\ UNCHANGED <<cfg, worldSize, initialized, fileExists, disk, published,
                   received, loaded, touched, buf, request, round, stageLog,
                   exitCode, log>>

GenerateRaisesRetried(r) ==
    /\ pc[r] = "loop"
    /\ round[r] < NumRounds
    /\ calls' = [calls EXCEPT ![r] = @ + 1]
    /\ reqLog' = [reqLog EXCEPT ![r] = Append(@, RequestForRound(r))]
    /\ UNCHANGED <<cfg, worldSize, initialized, fileExists, disk, published,
                   received, pc, loaded, touched, buf, request, round,
                   smiles_batch, finished, gens, stageLog, exitCode, log>>

\* generator.generate raises: nothing catches it, the process ends with the
\* traceback and the interpreter closes csv_file on the way out
GenerateRaises(r) ==
    /\ pc[r] = "loop"
    /\ round[r] < NumRounds
    /\ calls' = [calls EXCEPT ![r] = @ + 1]
    /\ reqLog' = [reqLog EXCEPT ![r] = Append(@, RequestForRound(r))]
    /\ disk' = disk \o buf[r]
    /\ buf' = [buf EXCEPT ![r] = <<>>]
    /\ pc' = [pc EXCEPT ![r] = "error"]
    /\ exitCode' = [exitCode EXCEPT ![r] = 1]
    /\ log' = [log EXCEPT ![r] = Append(@, "Traceback")]
    /\ UNCHANGED <<cfg, worldSize, initialized, fileExists, published,
                   received, loaded, touched, request, round, smiles_batch,
                   finished, gens, stageLog>>

\* mol_repr == "smiles": write_func("\n".join(smiles_batch) + "\n")
WriteRaw(r) ==
    /\ pc[r] = "write"
    /\ buf' = [buf EXCEPT ![r] = @ \o JoinLines(smiles_batch[r])]
    /\ touched' = touched \cup {r}
    /\ stageLog' = [stageLog EXCEPT ![r] = Append(@, FALSE)]
    /\ round' = [round EXCEPT ![r] = @ + 1]
    /\ pc' = [pc EXCEPT ![r] = "loop"]
    /\ UNCHANGED <<cfg, worldSize, initialized, fileExists, disk, published,
                   received, loaded, request, calls, smiles_batch, finished,
                   gens, reqLog, exitCode, log>>

\* one process of the parmap pool finishes one item of the batch
EvaluatorFinishes(r) ==
    /\ pc[r] = "parmap"
    /\ \E i \in 1..Len(smiles_batch[r]) :
          /\ \A k \in 1..Len(finished[r]) : finished[r][k] # i
          /\ finished' = [finished EXCEPT ![r] = Append(@, i)]
    /\ UNCHANGED <<cfg, worldSize, initialized, fileExists, disk, published,
                   received, pc, loaded, touched, buf, request, round, calls,
                   smiles_batch, gens, stageLog, reqLog, exitCode, log>>

\* parmap.map returns once every item is finished; then the join and the
\* write, all inside try: ... except: pass
ValidateAndWrite(r) ==
    /\ pc[r] = "parmap"
    /\ Len(finished[r]) = Len(smiles_batch[r])
    /\ LET canon_smiles_batch == parmap_map(smiles_batch[r], finished[r])
           lines == IF canon_smiles_batch = RaisedSeq THEN RaisedSeq
                    ELSE JoinLines(canon_smiles_batch)
       IN IF lines = RaisedSeq
          THEN UNCHANGED <<buf, touched>>
          ELSE /\ buf' = [buf EXCEPT ![r] = @ \o lines]
               /\ touched' = touched \cup {r}
    /\ stageLog' = [stageLog EXCEPT ![r] = Append(@, FALSE)]
    /\ round' = [round EXCEPT ![r] = @ + 1]
    /\ pc' = [pc EXCEPT ![r] = "loop"]
    /\ UNCHANGED <<cfg, worldSize, initialized, fileExists, disk, published,
                   received, loaded, request, calls, smiles_batch, finished,
                   gens, reqLog, exitCode, log>>

PoolFailsFatal(r) ==
    /\ pc[r] = "parmap"
    /\ stageLog' = [stageLog EXCEPT ![r] = Append(@, TRUE)]
    /\ disk' = disk \o buf[r]
    /\ buf' = [buf EXCEPT ![r] = <<>>]
    /\ pc' = [pc EXCEPT ![r] = "error"]
    /\ exitCode' = [exitCode EXCEPT ![r] = 1]
    /\ UNCHANGED <<cfg, worldSize, initialized, fileExists, published,
                   received, loaded, touched, request, round, calls,
                   smiles_batch, finished, gens, reqLog, log>>

\* parmap.map itself fails (the pool cannot be set up or breaks): except: pass
PoolFails(r) ==
    /\ pc[r] = "parmap"
    /\ stageLog' = [stageLog EXCEPT ![r] = Append(@, TRUE)]
    /\ round' = [round EXCEPT ![r] = @ + 1]
    /\ pc' = [pc EXCEPT ![r] = "loop"]
    /\ UNCHANGED <<cfg, worldSize, initialized, fileExists, disk, published,
                   received, loaded, touched, buf, request, calls,
                   smiles_batch, finished, gens, reqLog, exitCode, log>>

FinishWithStop(r) ==
    /\ pc[r] = "loop"
    /\ round[r] >= NumRounds
    /\ published' = published + 1
    /\ disk' = disk \o buf[r]
    /\ buf' = [buf EXCEPT ![r] = <<>>]
    /\ pc' = [pc EXCEPT ![r] = "done"]
    /\ exitCode' = [exitCode EXCEPT ![r] = 0]
    /\ log' = [log EXCEPT ![r] = Append(@, "Saved in file_path")]
    /\ UNCHANGED <<cfg, worldSize, initialized, fileExists, received, loaded,
                   touched, request, round, calls, smiles_batch, finished,
                   gens, stageLog, reqLog>>

\* the loop is exhausted: print(f"Saved in {file_path}."), worker_main
\* returns and csv_file is closed with it
Finish(r) ==
    /\ pc[r] = "loop"
    /\ round[r] >= NumRounds
    /\ disk' = disk \o buf[r]
    /\ buf' = [buf EXCEPT ![r] = <<>>]
    /\ pc' = [pc EXCEPT ![r] = "done"]
    /\ exitCode' = [exitCode EXCEPT ![r] = 0]
    /\ log' = [log EXCEPT ![r] = Append(@, "Saved in file_path")]
    /\ UNCHANGED <<cfg, worldSize, initialized, fileExists, published,
                   received, loaded, touched, request, round, calls,
                   smiles_batch, finished, gens, stageLog, reqLog>>

BufferFlushOverwrite(r) ==
    /\ pc[r] \in {"loop", "write", "parmap"}
    /\ buf[r] # <<>>
    /\ disk' = buf[r]
    /\ buf' = [buf EXCEPT ![r] = <<>>]
    /\ UNCHANGED <<cfg, worldSize, initialized, fileExists, published,
                   received, pc, loaded, touched, request, round, calls,
                   smiles_batch, finished, gens, stageLog, reqLog, exitCode,
                   log>>

\* csv_file is opened with the default buffering and never flushed by the
\* code: the io layer moves the buffered text to the file when it sees fit
BufferFlush(r) ==
    /\ pc[r] \in {"loop", "write", "parmap"}
    /\ buf[r] # <<>>
    /\ disk' = disk \o buf[r]
    /\ buf' = [buf EXCEPT ![r] = <<>>]
    /\ UNCHANGED <<cfg, worldSize, initialized, fileExists, published,
                   received, pc, loaded, touched, request, round, calls,
                   smiles_batch, finished, gens, stageLog, reqLog, exitCode, log>>

\* the process is killed while csv_file is open: what is buffered is lost
Crash(r) ==
    /\ pc[r] \in {"loop", "write", "parmap"}
    /\ buf' = [buf EXCEPT ![r] = <<>>]
    /\ pc' = [pc EXCEPT ![r] = "killed"]
    /\ exitCode' = [exitCode EXCEPT ![r] = 137]
    /\ UNCHANGED <<cfg, worldSize, initialized, fileExists, disk, published,
                   received, loaded, touched, request, round, calls,
                   smiles_batch, finished, gens, stageLog, reqLog, log>>

\* a second run configured with the same file_path: its own
\* os.path.exists test finds nothing, it opens the file and writes to it
OtherRunCreates ==
    /\ ~fileExists
    /\ fileExists' = TRUE
    /\ disk' = OtherContent
    /\ UNCHANGED <<cfg, worldSize, initialized, published, received, pc,
                   loaded, touched, buf, request, round, calls, smiles_batch,
                   finished, gens, stageLog, reqLog, exitCode, log>>

Next ==
    \/ \E r \in Ranks : LoadModel(r)
    \/ \E r \in Ranks : BroadcastSend(r)
    \/ \E r \in Ranks : BroadcastReceive(r)
    \/ \E r \in Ranks : GuardExists(r)
    \/ \E r \in Ranks : OpenFile(r)
    \/ \E r \in Ranks : Generate(r)
    \/ \E r \in Ranks : GenerateRaises(r)
    \/ \E r \in Ranks : WriteRaw(r)
    \/ \E r \in Ranks : EvaluatorFinishes(r)
    \/ \E r \in Ranks : ValidateAndWrite(r)
    \/ \E r \in Ranks : PoolFails(r)
    \/ \E r \in Ranks : Finish(r)
    \/ \E r \in Ranks : BufferFlush(r)
    \/ \E r \in Ranks : Crash(r)
    \/ OtherRunCreates

Spec == Init /\ [][Next]_vars


\* ------------------------------------------------- notions the claims use

\* an item that fails decoding or canonicalization
Malformed(text) == make_caninical_smiles(text) \in {Raised, None}

\* the marker a malformed item is to be replaced by
Sentinel == "None"

\* the lines item isolation asks for: canonical strings, sentinel for malformed
IsolatedLines(batch) ==
    [i \in 1..Len(batch) |->
        IF Malformed(batch[i]) THEN Sentinel ELSE make_caninical_smiles(batch[i])]

\* the lines of all batches, round-major
RECURSIVE Flatten(_)
Flatten(batches) ==
    IF batches = <<>> THEN <<>> ELSE Head(batches) \o Flatten(Tail(batches))

\* round k of rank r went through validation with no failure of any kind
CleanRound(r, k) ==
    /\ ~stageLog[r][k]
    /\ \A i \in 1..Len(gens[r][k]) : ~Malformed(gens[r][k][i])

\* the canonical lines of the clean rounds among the first n, round-major
RECURSIVE CleanLines(_, _)
CleanLines(r, n) ==
    IF n = 0 THEN <<>>
    ELSE CleanLines(r, n - 1) \o
         (IF CleanRound(r, n)
          THEN [i \in 1..Len(gens[r][n]) |-> make_caninical_smiles(gens[r][n][i])]
          ELSE <<>>)

\* number of finished rounds of rank r whose output the code keeps
KeptRounds(r) ==
    Cardinality({k \in 1..Len(stageLog[r]) :
                    cfg.mol_repr = "smiles" \/ CleanRound(r, k)})

\* ----------------------------------------------------------------- claims

\* C1 (as stated): in validate-and-canonicalize mode, a round with exactly
\* one malformed item and no failure of the parallel stage appends exactly
\* batch_size lines: the sentinel at the malformed position, the canonical
\* string at every other, in the original order.
C1_ItemIsolation ==
    [][\A r \in Ranks :
          (/\ pc[r] = "parmap"
           /\ pc'[r] = "loop"
           /\ ~stageLog'[r][Len(stageLog'[r])]
           /\ Cardinality({i \in 1..Len(smiles_batch[r]) :
                              Malformed(smiles_batch[r][i])}) = 1)
          => (disk \o buf[r])' = (disk \o buf[r]) \o IsolatedLines(smiles_batch[r])
      ]_vars

C3_RoundsAndRequestShape ==
    \A r \in Ranks :
        /\ \A k \in 1..Len(reqLog[r]) :
              /\ Len(reqLog[r][k].inputs) = cfg.batch_size
              /\ Len(reqLog[r][k].min_tokens) = cfg.batch_size
        /\ Len(reqLog[r]) = calls[r]
        /\ pc[r] = "done" =>
              /\ calls[r] * cfg.batch_size >= cfg.generation_len
              /\ (calls[r] - 1) * cfg.batch_size < cfg.generation_len

\* a finished run whose generation_len is not a multiple of batch_size
C3_Witness ==
    /\ pc[0] = "done"
    /\ cfg.generation_len % cfg.batch_size # 0
    /\ calls[0] >= 1
    /\ Len(reqLog[0][calls[0]].inputs) = cfg.batch_size

\* C4 (as stated): in a group of more than one rank no process makes more
\* generate calls than rounds were broadcast; counting even the start-up
\* broadcast of None as a round, the coordinator never calls generate for a
\* round that was not broadcast.
C4_LockStep ==
    (initialized /\ worldSize > 1) =>
        \A r \in Ranks : calls[r] <= published

\* C5: a coordinator that finds the path existing at the guard leaves the
\* guard only by exiting with code 1, having made no generate call and with
\* the file as it was; it stays so afterwards; and the guard is entered only
\* from start-up, never from the round loop.
C5_IdempotencyGuard ==
    [][\A r \in Ranks :
          /\ (pc[r] = "guard" /\ fileExists /\ pc'[r] # "guard") =>
                /\ pc'[r] = "exited"
                /\ exitCode'[r] = 1
                /\ calls'[r] = 0
                /\ disk' = disk
                /\ fileExists'
          /\ pc[r] = "exited" =>
                /\ pc'[r] = "exited"
                /\ calls'[r] = 0
                /\ disk' = disk
          /\ (pc'[r] = "guard" /\ pc[r] # "guard") =>
                /\ pc[r] \in {"start", "bcast"}
                /\ round[r] = 0
      ]_vars

\* the coordinator has exited on an existing file, which is untouched
C5_Witness ==
    /\ pc[0] = "exited"
    /\ exitCode[0] = 1
    /\ calls[0] = 0
    /\ fileExists
    /\ disk = PreContent

\* C6 (as stated): a run that ends with the already-exists abort has not
\* loaded the model.
C6_AbortBeforeLoad ==
    \A r \in Ranks : pc[r] = "exited" => ~loaded[r]

\* C7 (as stated): once the write of a round has returned its lines are on
\* disk: nothing is held in the buffer between rounds, and a killed
\* coordinator leaves on disk every line of the rounds it had written.
C7_DurableAppend ==
    \A r \in Ranks :
        /\ pc[r] = "loop" => buf[r] = <<>>
        /\ pc[r] = "killed" => Len(disk) >= cfg.batch_size * KeptRounds(r)

\* C8: in pass-through mode the file's lines are the raw texts of the
\* generate calls, verbatim, round-major then by index within the round;
\* on completion there are ceil(generation_len / batch_size) rounds of them.
C8_PassThroughVerbatim ==
    cfg.mol_repr = "smiles" =>
        \A r \in Ranks :
            /\ pc[r] \in {"loop", "done"} => disk \o buf[r] = Flatten(gens[r])
            /\ pc[r] = "done" =>
                  /\ buf[r] = <<>>
                  /\ Len(gens[r]) * cfg.batch_size >= cfg.generation_len
                  /\ (Len(gens[r]) - 1) * cfg.batch_size < cfg.generation_len

\* a finished pass-through run of two rounds with different texts
C8_Witness ==
    /\ pc[0] = "done"
    /\ cfg.mol_repr = "smiles"
    /\ Len(gens[0]) = 2
    /\ gens[0][1] # gens[0][2]
    /\ disk = gens[0][1] \o gens[0][2]

\* C9: past the role test a rank is in the coordinator's code iff it is rank
\* 0 or the group is not initialized, and in the waiting loop otherwise; only
\* such a coordinator ever tests, opens or writes the output file.
C9_SingleWriter ==
    /\ \A r \in Ranks :
          /\ pc[r] \in {"guard", "open", "loop", "write", "parmap", "done",
                        "exited", "killed"}
                => (r = 0 \/ ~initialized)
          /\ pc[r] = "wait" => (r # 0 /\ initialized)
    /\ touched \subseteq {0}

\* rank 0 has written and finished while rank 1 waits
C9_Witness ==
    /\ worldSize > 1
    /\ pc[0] = "done"
    /\ disk # <<>>
    /\ pc[1] = "wait"
    /\ touched = {0}

\* C10: in validate mode the written lines are a function of the generated
\* batches alone: for every order in which the pool finished the items, line
\* i of a written round is the canonical string of item i of its batch.
C10_OrderPreserved ==
    cfg.mol_repr = "selfies" =>
        \A r \in Ranks :
            pc[r] \in {"loop", "done"} =>
                disk \o buf[r] = CleanLines(r, Len(stageLog[r]))

\* a round whose items finished in reverse order was written in batch order
C10_Witness ==
    /\ cfg.mol_repr = "selfies"
    /\ pc[0] = "loop"
    /\ finished[0] = <<2, 1>>
    /\ smiles_batch[0] = <<"[N][C]", "[C][O]">>
    /\ disk \o buf[0] = <<"CN", "CO">>


\* objects rank 0 has published beyond the start-up None: the requests
RequestsPublished == IF published = 0 THEN 0 ELSE published - 1

\* a log entry that records a validation failure: none of the messages the
\* program prints about anything else
IsFailureRecord(m) ==
    m \notin {"loaded model", "request_object", "Saved in file_path",
              "file_path already exists", "Traceback"}

\* finished rounds of rank r whose output was dropped
DroppedRounds(r) == Len(stageLog[r]) - KeptRounds(r)

IsPrefix(s, t) == Len(s) <= Len(t) /\ SubSeq(t, 1, Len(s)) = s

\* C11 (as stated): in a process group the coordinator publishes each round's
\* request before its generate call of that round, so the requests published
\* are the generate calls begun, or one more while a call is about to begin.
C11_PublishThenGenerate ==
    initialized =>
        /\ calls[0] <= RequestsPublished
        /\ RequestsPublished <= calls[0] + 1

\* C12 (as stated): every dropped round (an item's failure swallowed or the
\* whole stage failing) leaves a record in the coordinator's log, so the log
\* has at least as many failure records as rounds were dropped.
C12_FailuresLogged ==
    \A r \in Ranks :
        Len(SelectSeq(log[r], IsFailureRecord)) >= DroppedRounds(r)

\* C13: when the parallel stage as a whole fails in a round, that step
\* appends nothing, leaves the file and the buffer as they were, makes no
\* further generate call for the round, does not end the process, and moves
\* on to the next iteration of the loop.
C13_StageFailureSkipsRound ==
    [][\A r \in Ranks :
          (/\ pc[r] = "parmap"
           /\ Len(stageLog'[r]) = Len(stageLog[r]) + 1
           /\ stageLog'[r][Len(stageLog'[r])])
          => /\ disk' = disk
             /\ buf'[r] = buf[r]
             /\ calls'[r] = calls[r]
             /\ round'[r] = round[r] + 1
             /\ pc'[r] = "loop"
             /\ exitCode'[r] = NoExit
      ]_vars

\* a run completed normally although the stage failed in its first round,
\* with the second round's output in the file
C13_Witness ==
    /\ pc[0] = "done"
    /\ exitCode[0] = 0
    /\ Len(stageLog[0]) = 2
    /\ stageLog[0][1]
    /\ ~stageLog[0][2]
    /\ disk # <<>>

\* C14: a generate call that raises ends the process with an error: the
\* round is not retried and not counted, nothing is written for it, what the
\* earlier rounds wrote is in the file, and the process stays terminated.
C14_GenerateFailureFatal ==
    [][\A r \in Ranks :
          /\ (calls'[r] = calls[r] + 1 /\ gens'[r] = gens[r]) =>
                /\ pc'[r] = "error"
                /\ exitCode'[r] = 1
                /\ round'[r] = round[r]
                /\ disk' = disk \o buf[r]
                /\ buf'[r] = <<>>
          /\ pc[r] = "error" =>
                /\ pc'[r] = "error"
                /\ calls'[r] = calls[r]
                /\ disk' = disk
      ]_vars

\* the second round's generate call raised; the first round's line is on disk
C14_Witness ==
    /\ pc[0] = "error"
    /\ exitCode[0] = 1
    /\ round[0] = 1
    /\ calls[0] = 2
    /\ Len(disk) = cfg.batch_size
    /\ Len(gens[0]) = 1

\* C15: rank 0 publishes nothing after the start-up broadcast, whatever way
\* it ends; a rank other than 0 never terminates, and once in its waiting
\* loop it has taken everything published, so its receive cannot return.
C15_WorkersNeverTerminate ==
    initialized =>
        /\ published <= 1
        /\ \A r \in Ranks \ {0} :
              /\ pc[r] \in {"start", "bcast", "wait"}
              /\ exitCode[r] = NoExit
              /\ pc[r] = "wait" => received[r] = published

\* rank 0 has ended (normally or on the existing file) and rank 1 is blocked
C15_Witness ==
    /\ worldSize > 1
    /\ pc[0] \in {"done", "exited"}
    /\ exitCode[0] # NoExit
    /\ pc[1] = "wait"
    /\ received[1] = published
    /\ exitCode[1] = NoExit

\* C16 (as stated): opening the output path when it already references a
\* file fails, so a run never truncates a file another run has created.
C16_ExclusiveCreate ==
    [][\A r \in Ranks :
          (pc[r] = "open" /\ pc'[r] # "open" /\ fileExists) => disk' = disk
      ]_vars

\* C17: the file is opened once, before any round; from then on each step of
\* the run leaves what is on disk a prefix of what is on disk afterwards, and
\* (unless the process is killed) what was written a prefix of what is written.
C17_AppendOnly ==
    [][\A r \in Ranks :
          /\ (pc[r] = "open" /\ pc'[r] # "open") =>
                (round[r] = 0 /\ calls[r] = 0 /\ buf[r] = <<>>)
          /\ pc'[r] = "open" => pc[r] \in {"guard", "open"}
          /\ pc[r] \in {"loop", "write", "parmap"} =>
                /\ IsPrefix(disk, disk')
                /\ pc'[r] # "killed" =>
                      IsPrefix(disk \o buf[r], disk' \o buf'[r])
      ]_vars

\* the first round is on disk and the second is appended behind it
C17_Witness ==
    /\ pc[0] = "loop"
    /\ round[0] = 2
    /\ disk # <<>>
    /\ buf[0] # <<>>

\* C18: every generate call of a run gets the same request: the configured
\* seed and batch_size empty prompts, in every round.
C18_FixedRequest ==
    \A r \in Ranks :
        \A k \in 1..Len(reqLog[r]) :
            /\ reqLog[r][k] = reqLog[r][1]
            /\ reqLog[r][k].seed = cfg.seed
            /\ reqLog[r][k].inputs = [i \in 1..cfg.batch_size |-> <<>>]

\* two rounds were run
C18_Witness ==
    /\ pc[0] = "done"
    /\ Len(reqLog[0]) = 2
    /\ reqLog[0][2].seed = SEED

\* C19: in validate mode the written lines come in whole rounds: their number
\* is a multiple of batch_size, at most batch_size per generate call, and
\* every line is the canonical string of a well-formed text, never None or a
\* sentinel.
C19_AllOrNothing ==
    cfg.mol_repr = "selfies" =>
        \A r \in Ranks :
            pc[r] \in {"loop", "parmap", "done", "error"} =>
                LET written == disk \o buf[r] IN
                /\ Len(written) % cfg.batch_size = 0
                /\ Len(written) <= cfg.batch_size * calls[r]
                /\ \A i \in 1..Len(written) :
                      /\ written[i] \notin {None, Raised, Sentinel}
                      /\ \E t \in Texts :
                            ~Malformed(t) /\ written[i] = make_caninical_smiles(t)

\* a round with one well-formed and one uncanonicalizable item wrote nothing
C19_Witness ==
    /\ cfg.mol_repr = "selfies"
    /\ pc[0] = "loop"
    /\ round[0] = 1
    /\ smiles_batch[0] = <<"[N][C]", "[C][?]">>
    /\ ~stageLog[0][1]
    /\ disk \o buf[0] = <<>>

====
